---- MODULE Spec2Model ----
(***************************************************************************)
(* HealthRakshak, sensor_allocation_final.py: the /sensor-allocation       *)
(* request handler and the graph / sensor-selection pipeline it runs.      *)
(*                                                                         *)
(* An uploaded .inp file is represented by what _read_inp_sections yields  *)
(* for it: the lines of its JUNCTIONS and PIPES sections, each line as the *)
(* list of fields line.split() gives.  Fields are strings; an elevation    *)
(* field is turned into a number by FloatOf, as float() does, and may fail *)
(* to parse.                                                               *)
(***************************************************************************)
EXTENDS Integers, Sequences, FiniteSets, TLC

\* ------------------------------------------------------------------ bounds

MaxPipes == 2          \* lines in the PIPES section
MaxJunctions == 1      \* lines in the JUNCTIONS section
MaxAdj == 1            \* adjacency-list length of the graphs given directly
                       \* to remove_redundant_sensors (SpecRR)

Nodes == {"A", "B", "C"}

\* Elevation fields: one that parses (to 150.0), one that float() rejects.
ElevTokens == {"150", "x"}

\* elevation_threshold: the default of create_graph_from_inp, which 150.0
\* exceeds, and 150, which it does not.
DefaultThreshold == 100
Thresholds == {DefaultThreshold, 150}

SeqsUpTo(S, n) == UNION {[1..k -> S] : k \in 0..n}

JunctionLines == {<<n, e>> : n \in Nodes, e \in ElevTokens} \cup {<<"A">>}
PipeLines == {<<"P", a, b>> : a \in Nodes, b \in Nodes} \cup {<<"P", "A">>}

EmptyFile == [JUNCTIONS |-> <<>>, PIPES |-> <<>>]
Files == [JUNCTIONS : SeqsUpTo(JunctionLines, MaxJunctions),
          PIPES : SeqsUpTo(PipeLines, MaxPipes)]

EmptyMap == <<>>

\* ----------------------------------------------------------- pure functions

\* float(parts[1]): the fields that parse, with their values.
FloatOf == [t \in {"150"} |-> 150]
Parses(t) == t \in DOMAIN FloatOf

\* One iteration of the loop over the JUNCTIONS lines.
SkipStep(skip_nodes, parts, elevation_threshold) ==
  IF Len(parts) >= 2
  THEN IF Parses(parts[2])
       THEN IF FloatOf[parts[2]] > elevation_threshold
            THEN skip_nodes \cup {parts[1]}
            ELSE skip_nodes
       ELSE skip_nodes           \* except ValueError: continue
  ELSE skip_nodes

RECURSIVE SkipLoop(_, _, _)
SkipLoop(lines, skip_nodes, elevation_threshold) ==
  IF lines = <<>> THEN skip_nodes
  ELSE SkipLoop(Tail(lines),
                SkipStep(skip_nodes, Head(lines), elevation_threshold),
                elevation_threshold)

get_skip_nodes_from_elevation(file, elevation_threshold) ==
  SkipLoop(file.JUNCTIONS, {}, elevation_threshold)

\* node_neighbors.setdefault(n, []).append(e)
SetDefaultAppend(g, n, e) ==
  IF n \in DOMAIN g THEN [g EXCEPT ![n] = Append(@, e)]
  ELSE g @@ (n :> <<e>>)

\* Variants of the loop body with a slip in it.
AddPipe_OneWay(g, parts, skip_nodes) ==
  IF Len(parts) >= 3
  THEN IF parts[2] \in skip_nodes \/ parts[3] \in skip_nodes THEN g
       ELSE SetDefaultAppend(g, parts[2], <<parts[3], 1>>)
  ELSE g

AddPipe_SkipN1Only(g, parts, skip_nodes) ==
  IF Len(parts) >= 3
  THEN IF parts[2] \in skip_nodes THEN g
       ELSE SetDefaultAppend(SetDefaultAppend(g, parts[2], <<parts[3], 1>>),
                             parts[3], <<parts[2], 1>>)
  ELSE g

AddPipe_KeepHalfEdge(g, parts, skip_nodes) ==
  IF Len(parts) >= 3
  THEN IF parts[2] \in skip_nodes THEN g
       ELSE IF parts[3] \in skip_nodes
            THEN SetDefaultAppend(g, parts[2], <<parts[3], 1>>)
            ELSE SetDefaultAppend(SetDefaultAppend(g, parts[2], <<parts[3], 1>>),
                                  parts[3], <<parts[2], 1>>)
  ELSE g

\* One iteration of the loop over the PIPES lines: n1 = parts[1], n2 = parts[2]
\* in the source's 0-based indexing; every edge has weight 1.0.
AddPipe(g, parts, skip_nodes) ==
  IF Len(parts) >= 3
  THEN IF parts[2] \in skip_nodes \/ parts[3] \in skip_nodes THEN g
       ELSE SetDefaultAppend(SetDefaultAppend(g, parts[2], <<parts[3], 1>>),
                             parts[3], <<parts[2], 1>>)
  ELSE g

RECURSIVE PipeLoop(_, _, _)
PipeLoop(lines, g, skip_nodes) ==
  IF lines = <<>> THEN g
  ELSE PipeLoop(Tail(lines), AddPipe(g, Head(lines), skip_nodes), skip_nodes)

create_graph_from_inp(file, elevation_threshold) ==
  PipeLoop(file.PIPES, EmptyMap,
           get_skip_nodes_from_elevation(file, elevation_threshold))

\* min(edges, key=lambda x: x[1])[0]: the first edge of least weight.
MinEdge(edges) ==
  LET i == CHOOSE i \in 1..Len(edges) :
             /\ \A j \in 1..Len(edges) : edges[i][2] <= edges[j][2]
             /\ \A j \in 1..(i - 1) : edges[j][2] > edges[i][2]
  IN edges[i]

find_nearest_neighbors(graph) ==
  [node_id \in {n \in DOMAIN graph : graph[n] # <<>>} |-> MinEdge(graph[node_id])[1]]

identify_initial_sensor_nodes(nearest) ==
  LET counts(n) == Cardinality({k \in DOMAIN nearest : nearest[k] = n})
  IN {n \in {nearest[k] : k \in DOMAIN nearest} : counts(n) > 1}

identify_left_out_nodes_Inverted(nearest, sens) ==
  {node \in DOMAIN nearest : nearest[node] \in sens}

identify_left_out_nodes(nearest, sens) ==
  {node \in DOMAIN nearest : nearest[node] \notin sens}

Redundant(graph, sens) ==
  {s \in sens : \A i \in 1..Len(graph[s]) : graph[s][i][1] \in sens}

remove_redundant_sensors_Keep(graph, sens) == sens

remove_redundant_sensors_ReturnRedundant(graph, sens) == Redundant(graph, sens)

\* Defined when every member of sens is a key of graph; graph[s] raises
\* KeyError otherwise (the actions test that before they use this).
remove_redundant_sensors(graph, sens) == sens \ Redundant(graph, sens)

map_to_sensors_All(nearest, sens) ==
  [node \in DOMAIN nearest |-> nearest[node]]

map_to_sensors(nearest, sens) ==
  [node \in (DOMAIN nearest) \ sens |-> nearest[node]]

\* ------------------------------------------------------------------- state

VARIABLES
  req,                  \* the request: "nofile", "emptyname" or "ok"
  upload,               \* request.files['file'], as its sections
  elevation_threshold,  \* the threshold create_graph_from_inp is run with
  temp_file,            \* [state: "none" | "exists" | "deleted", data]
  pc,                   \* the handler's position
  node_neighbors,
  nearest_neighbors,
  initial_sensors,
  left_out_nodes,
  sensors,
  mapping,
  raised,               \* the exception propagating out, or "none"
  response,             \* "none", "400", "200", "500"
  rr_calls              \* the sensor sets remove_redundant_sensors was
                        \* entered with, in call order

vars == <<req, upload, elevation_threshold, temp_file, pc, node_neighbors,
          nearest_neighbors, initial_sensors, left_out_nodes, sensors, mapping,
          raised, response, rr_calls>>

locals == <<node_neighbors, nearest_neighbors, initial_sensors, left_out_nodes,
            sensors, mapping, rr_calls>>

request == <<req, upload, elevation_threshold>>

Init ==
  /\ req \in {"nofile", "emptyname", "ok"}
  /\ upload \in IF req = "ok" THEN Files ELSE {EmptyFile}
  /\ elevation_threshold \in Thresholds
  /\ temp_file = [state |-> "none", data |-> EmptyFile]
  /\ pc = "request"
  /\ node_neighbors = EmptyMap
  /\ nearest_neighbors = EmptyMap
  /\ initial_sensors = {}
  /\ left_out_nodes = {}
  /\ sensors = {}
  /\ mapping = EmptyMap
  /\ raised = "none"
  /\ response = "none"
  /\ rr_calls = <<>>


\* ------------------------------------------------- the handler, lines 141-170

\* if 'file' not in request.files: return 400
RejectNoFile ==
  /\ pc = "request" /\ req = "nofile"
  /\ response' = "400"
  /\ pc' = "exit"
  /\ UNCHANGED <<request, temp_file, locals, raised>>

\* if file.filename == '': return 400
RejectEmptyName ==
  /\ pc = "request" /\ req = "emptyname"
  /\ response' = "400"
  /\ pc' = "exit"
  /\ UNCHANGED <<request, temp_file, locals, raised>>

\* tempfile.NamedTemporaryFile(delete=False); file.save(...); temp_file.close()
\* The temporary file exists from line 153 on.  file.save writes to disk and
\* can raise OSError; lines 153-155 stand before the try statement.
SaveUpload ==
  /\ pc = "request" /\ req = "ok"
  /\ \/ /\ temp_file' = [state |-> "exists", data |-> upload]
        /\ pc' = "isn_graph"
        /\ UNCHANGED <<raised, response>>
     \/ /\ temp_file' = [state |-> "exists", data |-> EmptyFile]
        /\ raised' = "OSError"
        /\ response' = "500"
        /\ pc' = "exit"
  /\ UNCHANGED <<request, locals>>

\* An exception raised inside the try statement: control goes to finally.
Raise(e) ==
  /\ raised' = e
  /\ pc' = "finally"

\* identify_sensor_nodes, line 116.  open() in _read_inp_sections can raise.
IsnCreateGraph ==
  /\ pc = "isn_graph"
  /\ \/ /\ node_neighbors' = create_graph_from_inp(temp_file.data, elevation_threshold)
        /\ pc' = "isn_nearest"
        /\ UNCHANGED raised
     \/ /\ Raise("OSError")
        /\ UNCHANGED node_neighbors
  /\ UNCHANGED <<request, temp_file, nearest_neighbors, initial_sensors,
                 left_out_nodes, sensors, mapping, response, rr_calls>>

\* line 118
IsnFindNearest ==
  /\ pc = "isn_nearest"
  /\ nearest_neighbors' = find_nearest_neighbors(node_neighbors)
  /\ pc' = "isn_initial"
  /\ UNCHANGED <<request, temp_file, node_neighbors, initial_sensors,
                 left_out_nodes, sensors, mapping, raised, response, rr_calls>>

\* line 119
IsnInitialSensors ==
  /\ pc = "isn_initial"
  /\ initial_sensors' = identify_initial_sensor_nodes(nearest_neighbors)
  /\ pc' = "isn_left_out"
  /\ UNCHANGED <<request, temp_file, node_neighbors, nearest_neighbors,
                 left_out_nodes, sensors, mapping, raised, response, rr_calls>>

\* line 120
IsnLeftOut ==
  /\ pc = "isn_left_out"
  /\ left_out_nodes' = identify_left_out_nodes(nearest_neighbors, initial_sensors)
  /\ pc' = "isn_union"
  /\ UNCHANGED <<request, temp_file, node_neighbors, nearest_neighbors,
                 initial_sensors, sensors, mapping, raised, response, rr_calls>>

\* line 121
IsnUnion ==
  /\ pc = "isn_union"
  /\ sensors' = initial_sensors \cup left_out_nodes
  /\ pc' = "isn_rr"
  /\ UNCHANGED <<request, temp_file, node_neighbors, nearest_neighbors,
                 initial_sensors, left_out_nodes, mapping, raised, response,
                 rr_calls>>

\* A call of remove_redundant_sensors(node_neighbors, sensors) that goes on at
\* `next`: the set is changed in place; graph[s] raises KeyError for a sensor
\* that is no key of the graph.
CallRemoveRedundant(next) ==
  /\ rr_calls' = Append(rr_calls, sensors)
  /\ IF sensors \subseteq DOMAIN node_neighbors
     THEN /\ sensors' = remove_redundant_sensors(node_neighbors, sensors)
          /\ pc' = next
          /\ UNCHANGED raised
     ELSE /\ Raise("KeyError")
          /\ UNCHANGED sensors

\* line 122, and the return of identify_sensor_nodes to line 158
IsnRemoveRedundant ==
  /\ pc = "isn_rr"
  /\ CallRemoveRedundant("h_graph")
  /\ UNCHANGED <<request, temp_file, node_neighbors, nearest_neighbors,
                 initial_sensors, left_out_nodes, mapping, response>>

\* line 159: the handler reads the file again
HCreateGraph ==
  /\ pc = "h_graph"
  /\ \/ /\ node_neighbors' = create_graph_from_inp(temp_file.data, elevation_threshold)
        /\ pc' = "h_nearest"
        /\ UNCHANGED raised
     \/ /\ Raise("OSError")
        /\ UNCHANGED node_neighbors
  /\ UNCHANGED <<request, temp_file, nearest_neighbors, initial_sensors,
                 left_out_nodes, sensors, mapping, response, rr_calls>>

\* line 161
HFindNearest ==
  /\ pc = "h_nearest"
  /\ nearest_neighbors' = find_nearest_neighbors(node_neighbors)
  /\ pc' = "h_rr"
  /\ UNCHANGED <<request, temp_file, node_neighbors, initial_sensors,
                 left_out_nodes, sensors, mapping, raised, response, rr_calls>>

\* line 162
HRemoveRedundant ==
  /\ pc = "h_rr"
  /\ CallRemoveRedundant("h_map")
  /\ UNCHANGED <<request, temp_file, node_neighbors, nearest_neighbors,
                 initial_sensors, left_out_nodes, mapping, response>>

\* line 163
HMapToSensors ==
  /\ pc = "h_map"
  /\ mapping' = map_to_sensors(nearest_neighbors, sensors)
  /\ pc' = "h_return"
  /\ UNCHANGED <<request, temp_file, node_neighbors, nearest_neighbors,
                 initial_sensors, left_out_nodes, sensors, raised, response,
                 rr_calls>>

\* lines 165-168: return jsonify(...), through finally
HReturn ==
  /\ pc = "h_return"
  /\ response' = "200"
  /\ pc' = "finally"
  /\ UNCHANGED <<request, temp_file, locals, raised>>

\* lines 169-170: os.unlink(temp_file.name), then the return or the re-raise
Finally ==
  /\ pc = "finally"
  /\ temp_file' = [temp_file EXCEPT !.state = "deleted"]
  /\ response' = IF raised = "none" THEN response ELSE "500"
  /\ pc' = "exit"
  /\ UNCHANGED <<request, locals, raised>>

Next ==
  \/ RejectNoFile
  \/ RejectEmptyName
  \/ SaveUpload
  \/ IsnCreateGraph
  \/ IsnFindNearest
  \/ IsnInitialSensors
  \/ IsnLeftOut
  \/ IsnUnion
  \/ IsnRemoveRedundant
  \/ HCreateGraph
  \/ HFindNearest
  \/ HRemoveRedundant
  \/ HMapToSensors
  \/ HReturn
  \/ Finally

Spec == Init /\ [][Next]_vars


\* ------------------------ remove_redundant_sensors called directly, twice over

\* Any graph over Nodes with adjacency lists of at most MaxAdj entries: lists
\* may be empty and need not be symmetric.
Edges == {<<n, 1>> : n \in Nodes}
Graphs == UNION {[K -> SeqsUpTo(Edges, MaxAdj)] : K \in SUBSET Nodes}

InitRR ==
  /\ req = "ok"
  /\ upload = EmptyFile
  /\ elevation_threshold = DefaultThreshold
  /\ temp_file = [state |-> "none", data |-> EmptyFile]
  /\ pc = "rr_first"
  /\ node_neighbors \in Graphs
  /\ sensors \in SUBSET DOMAIN node_neighbors
  /\ nearest_neighbors = EmptyMap
  /\ initial_sensors = {}
  /\ left_out_nodes = {}
  /\ mapping = EmptyMap
  /\ raised = "none"
  /\ response = "none"
  /\ rr_calls = <<>>

RRFirst ==
  /\ pc = "rr_first"
  /\ rr_calls' = Append(rr_calls, sensors)
  /\ sensors' = remove_redundant_sensors(node_neighbors, sensors)
  /\ pc' = "rr_second"
  /\ UNCHANGED <<request, temp_file, node_neighbors, nearest_neighbors,
                 initial_sensors, left_out_nodes, mapping, raised, response>>

RRSecond ==
  /\ pc = "rr_second"
  /\ rr_calls' = Append(rr_calls, sensors)
  /\ sensors' = remove_redundant_sensors(node_neighbors, sensors)
  /\ pc' = "rr_done"
  /\ UNCHANGED <<request, temp_file, node_neighbors, nearest_neighbors,
                 initial_sensors, left_out_nodes, mapping, raised, response>>

InitAll == Init \/ InitRR

NextRR ==
  \/ Next
  \/ RRFirst
  \/ RRSecond

\* The handler, together with direct double calls of remove_redundant_sensors.
SpecRR == InitAll /\ [][NextRR]_vars

\* ------------------------------------------------------------------ claims

\* The handler returned its result (lines 165-168 were reached).
Returned == response = "200"

\* create_graph_from_inp has just returned node_neighbors (lines 116, 159).
GraphBuilt == pc \in {"isn_nearest", "h_nearest"}

\* The neighbour identifiers in a node's adjacency list (none for a non-key).
NeighboursOf(graph, n) ==
  IF n \in DOMAIN graph THEN {graph[n][i][1] : i \in 1..Len(graph[n])} ELSE {}

\* How many times edge e stands in n's adjacency list.
Occurrences(graph, n, e) ==
  IF n \in DOMAIN graph
  THEN Cardinality({i \in 1..Len(graph[n]) : graph[n][i] = e})
  ELSE 0

\* The nodes a JUNCTIONS line puts above the threshold.
Excluded ==
  {l[1] : l \in {temp_file.data.JUNCTIONS[i] : i \in 1..Len(temp_file.data.JUNCTIONS)}
            \cap {l \in JunctionLines : /\ Len(l) >= 2
                                        /\ Parses(l[2])
                                        /\ FloatOf[l[2]] > elevation_threshold}}

\* The nodes the PIPES lines name as an endpoint.
PipeEndpoints ==
  UNION {{temp_file.data.PIPES[i][2], temp_file.data.PIPES[i][3]} :
           i \in {j \in 1..Len(temp_file.data.PIPES) : Len(temp_file.data.PIPES[j]) >= 3}}

\* No PIPES line joins a node to itself.
NoSelfLoopPipe ==
  \A i \in 1..Len(upload.PIPES) :
    Len(upload.PIPES[i]) >= 3 => upload.PIPES[i][2] # upload.PIPES[i][3]

\* C1: in the output of the full pipeline every value of the CoverageMapping
\* is a member of the final SensorSet.  Stated for the inputs without a
\* self-loop pipe, so that a violation does not rest on a node being its own
\* nearest neighbour (C8).
C1_MappingTargetsAreSensors ==
  Returned /\ NoSelfLoopPipe => \A n \in DOMAIN mapping : mapping[n] \in sensors

\* C2: after map_to_sensors every node of NearestMap is in exactly one of the
\* final SensorSet and the key set of the CoverageMapping, and no key of the
\* CoverageMapping is a sensor.
C2_ExhaustivePartition ==
  pc = "h_return" \/ Returned =>
    /\ \A n \in DOMAIN nearest_neighbors : (n \in sensors) # (n \in DOMAIN mapping)
    /\ DOMAIN mapping \subseteq DOMAIN nearest_neighbors
    /\ DOMAIN mapping \cap sensors = {}

C2_Witness ==
  /\ Returned
  /\ sensors # {}
  /\ DOMAIN mapping # {}

\* C3: no sensor of the final SensorSet with a non-empty neighbour list has
\* all of its graph neighbours in the final SensorSet.
C3_NoSurroundedSensor ==
  Returned =>
    \A s \in sensors :
      NeighboursOf(node_neighbors, s) # {} =>
        ~(NeighboursOf(node_neighbors, s) \subseteq sensors)

C3_Witness ==
  /\ Returned
  /\ sensors # {}
  /\ \E s \in sensors : Cardinality(NeighboursOf(node_neighbors, s)) >= 2

\* C4: a second remove_redundant_sensors call in succession removes nothing:
\* the set it returns is the set it was entered with (the first call's
\* result), for the handler's second call and for any graph and sensor set.
C4_Idempotent ==
  Len(rr_calls) = 2 => sensors = rr_calls[2]

C4_Witness ==
  /\ pc = "rr_done"
  /\ rr_calls[1] # rr_calls[2]
  /\ sensors # {}

\* C5: a node that a JUNCTIONS line gives a parsable elevation above the
\* threshold is neither a key nor a neighbour in the graph that
\* create_graph_from_inp returns.
C5_ElevationExclusion ==
  GraphBuilt =>
    \A n \in Excluded :
      /\ n \notin DOMAIN node_neighbors
      /\ \A m \in DOMAIN node_neighbors : n \notin NeighboursOf(node_neighbors, m)

C5_Witness ==
  /\ pc = "isn_nearest"
  /\ Excluded \cap PipeEndpoints # {}
  /\ DOMAIN node_neighbors # {}

\* C6: the graph create_graph_from_inp returns is symmetric: B stands in A's
\* adjacency list as often, with the same weight, as A stands in B's.
C6_Symmetry ==
  GraphBuilt =>
    \A a \in Nodes, b \in Nodes :
      Occurrences(node_neighbors, a, <<b, 1>>) = Occurrences(node_neighbors, b, <<a, 1>>)

C6_Witness ==
  /\ pc = "isn_nearest"
  /\ \E a \in Nodes, b \in Nodes :
       /\ a # b
       /\ Occurrences(node_neighbors, a, <<b, 1>>) = 2
  /\ Cardinality(DOMAIN node_neighbors) = 2

\* C7: the temporary file is deleted on every exit path of the handler.
C7_TempFileDeletedAtExit ==
  pc = "exit" => temp_file.state # "exists"

\* C8: no node is its own nearest neighbour.
C8_NoSelfNearest ==
  \A n \in DOMAIN nearest_neighbors : nearest_neighbors[n] # n

\* C9: every sensor set the pipeline passes to remove_redundant_sensors has
\* only keys of the graph as members, and no KeyError is raised.
C9_SensorsAreGraphKeys ==
  /\ pc \in {"isn_rr", "h_rr"} => sensors \subseteq DOMAIN node_neighbors
  /\ raised # "KeyError"

C9_Witness ==
  /\ pc = "h_rr"
  /\ sensors # {}
  /\ initial_sensors # {}

\* C10: after gap fill and before redundancy removal every node of NearestMap
\* is in the sensor set or has its nearest neighbour in it.
C10_GapFillCovers ==
  pc = "isn_rr" =>
    \A n \in DOMAIN nearest_neighbors :
      n \in sensors \/ nearest_neighbors[n] \in sensors

C10_Witness ==
  /\ pc = "isn_rr"
  /\ DOMAIN nearest_neighbors \ sensors # {}
  /\ left_out_nodes # {}

====
